---- MODULE Spec2Model ----
(***************************************************************************)
(* A model of the HNSW index of src/z-hnsw.cpp: the graph store, insert    *)
(* and search, with searchLayer and selectNeighbors computed as the code   *)
(* computes them.                                                          *)
(*                                                                         *)
(* Nodes are identified by their position in graph.nodes (1-based here,    *)
(* so graph.nodes[0] is node 1).  A node's neighbors field is a sequence   *)
(* of per-layer lists; layer l is element l+1 and the node's top layer is  *)
(* Len(nb)-1.  Distances are kept squared: std::sqrt is strictly monotone  *)
(* on the values that occur and the code only compares distances.          *)
(*                                                                         *)
(* The code indexes neighbors[level] and coordinates[i] without a bounds   *)
(* check.  Such an access is undefined behaviour; it is modelled as a      *)
(* choice between a crash and a garbage value u (a list of stored nodes    *)
(* for a neighbor list read, a number for a coordinate read, a lost write  *)
(* for an out-of-bounds push_back).                                        *)
(*                                                                         *)
(* calls is the log of the searchLayer calls the last insert or search     *)
(* made, each with its arguments, its final loop state and, for the calls  *)
(* of the linking loop, the neighbors selectNeighbors took.                *)
(***************************************************************************)
EXTENDS Integers, Sequences, FiniteSets, TLC

\* ---------------------------------------------------------------- bounds
MaxNodes == 3
MaxLevel == 1
MaxK == 3

\* ---------------------------------------------------------------- inputs
PtA == <<1, 2, 3, 4>>
PtB == <<5, 6, 7, 8>>
PtC == <<9, 10, 11, 12>>
PtD == <<13, 14, 15, 21>>
PtE == <<17, 18, 19, 20>>
PtShort == <<1, 2>>
PtMainQuery == <<15, 16, 17, 18>>
PtQuery == <<4, 5, 6, 7>>

\* the points and the query of main's kind: one dimension throughout
InsertPoints == {PtA, PtB, PtC}
QueryPoints == {PtQuery, PtA}
\* inputs whose dimensions disagree
MixedPoints == {PtA, PtShort}
MixedQueries == {PtQuery, PtShort}
Levels == 0..MaxLevel
\* HNSW(maxNeighbors, efConstr, mult): main's maxNeighbors and the smallest
\* one; an efConstruction of 1 and one no smaller than the store (as main's)
MainMaxNeighbors == 4
MaxNeighborsChoices == {1, MainMaxNeighbors}
EfChoices == {1, MaxNodes}
GarbageCoords == {0, 7}

VARIABLES nodes, maxLevel, maxNeighbors, efConstruction, crashed, last, result,
          calls

vars == <<nodes, maxLevel, maxNeighbors, efConstruction, crashed, last, result,
          calls>>

\* ---------------------------------------------------------------- helpers
Range(s) == {s[i] : i \in 1..Len(s)}

Min2(a, b) == IF a < b THEN a ELSE b

\* top layer of a node: neighbors.size() - 1
TopLayer(n) == Len(n.nb) - 1

\* Node(pt, maxLevel): point(pt), neighbors(maxLevel + 1)
NewNode(pt, level, addr) ==
    [point |-> pt, nb |-> [i \in 1..(level + 1) |-> <<>>], addr |-> addr]

\* ---------------------------------------------------------------- distance
\* p2.coordinates[i] for i beyond p2's size is an out-of-bounds read
Coord(p2, i, u) == IF i <= Len(p2) THEN p2[i] ELSE u.coord

RECURSIVE SumSquares(_, _, _, _)
SumSquares(p1, p2, u, i) ==
    IF i > Len(p1) THEN 0
    ELSE (p1[i] - Coord(p2, i, u)) * (p1[i] - Coord(p2, i, u))
         + SumSquares(p1, p2, u, i + 1)

\* the loop runs over p1's coordinates only
euclideanDistance(p1, p2, u) == SumSquares(p1, p2, u, 1)

DistanceReadsOutOfBounds(p1, p2) == Len(p1) > Len(p2)

\* ---------------------------------------------------------------- queues
\* std::pair<float, Node*> compares by distance, then by pointer
PairLess(g, a, b) ==
    \/ a.d < b.d
    \/ a.d = b.d /\ g[a.id].addr < g[b.id].addr

\* top() of the max-ordered std::priority_queue
MaxTop(g, S) == CHOOSE a \in S : \A b \in S \ {a} : PairLess(g, b, a)

\* top() of the std::greater<> ordered queue
MinTop(g, S) == CHOOSE a \in S : \A b \in S \ {a} : PairLess(g, a, b)

\* ---------------------------------------------------------------- searchLayer
\* currNode->neighbors[level]: the stored list, or garbage when the node has
\* no such layer
NeighborsAt(g, id, level, u) ==
    IF level < Len(g[id].nb) THEN g[id].nb[level + 1] ELSE u.list

LayerReadOutOfBounds(g, id, level) == level >= Len(g[id].nb)

\* the body of the for loop over one neighbor (lines 125-136)
VisitNeighbor(g, point, ef, u, st, neighbor) ==
    IF neighbor \in st.visited THEN st
    ELSE
      LET d == euclideanDistance(point, g[neighbor].point, u)
          st1 == [st EXCEPT !.visited = @ \cup {neighbor},
                            !.ub = @ \/ DistanceReadsOutOfBounds(point, g[neighbor].point)]
      IN IF Cardinality(st.top) < ef \/ d < st.lowerBound
         THEN LET pushed == st.top \cup {[d |-> d, id |-> neighbor]}
                  over == Cardinality(pushed) > ef
                  popped == IF over THEN pushed \ {MaxTop(g, pushed)} ELSE pushed
              IN [st1 EXCEPT !.candidates = @ \cup {[d |-> d, id |-> neighbor]},
                             !.pushed = Append(@, neighbor),
                             !.top = popped,
                             !.lowerBound = IF over THEN MaxTop(g, popped).d ELSE @]
         ELSE st1

RECURSIVE ScanNeighbors(_, _, _, _, _, _, _)
ScanNeighbors(g, point, ef, u, st, list, i) ==
    IF i > Len(list) THEN st
    ELSE ScanNeighbors(g, point, ef, u,
                       VisitNeighbor(g, point, ef, u, st, list[i]), list, i + 1)

\* the while loop over the frontier (lines 116-138)
RECURSIVE Expand(_, _, _, _, _, _)
Expand(g, point, level, ef, u, st) ==
    IF st.candidates = {} THEN st
    ELSE
      LET curr == MinTop(g, st.candidates)
      IN IF curr.d > st.lowerBound THEN st
         ELSE Expand(g, point, level, ef, u,
                ScanNeighbors(g, point, ef, u,
                    [st EXCEPT !.candidates = @ \ {curr},
                               !.expanded = Append(@, curr.id),
                               !.ub = @ \/ LayerReadOutOfBounds(g, curr.id, level)],
                    NeighborsAt(g, curr.id, level, u), 1))

\* searchLayer without line 114: the entry node is not marked visited
searchLayer_EntryUnvisited(g, point, enterPoint, level, ef, u) ==
    LET lowerBound == euclideanDistance(point, g[enterPoint].point, u)
        seed == [d |-> lowerBound, id |-> enterPoint]
    IN Expand(g, point, level, ef, u,
              [top |-> {seed}, candidates |-> {seed}, visited |-> {},
               lowerBound |-> lowerBound, expanded |-> <<>>,
               pushed |-> <<enterPoint>>,
               ub |-> DistanceReadsOutOfBounds(point, g[enterPoint].point)])

\* searchLayer(point, enterPoint, level, ef): the final loop state; .top is
\* the returned topCandidates queue, .ub tells whether an access was out of
\* bounds on the way
searchLayer(g, point, enterPoint, level, ef, u) ==
    LET lowerBound == euclideanDistance(point, g[enterPoint].point, u)
        seed == [d |-> lowerBound, id |-> enterPoint]
    IN Expand(g, point, level, ef, u,
              [top |-> {seed}, candidates |-> {seed}, visited |-> {enterPoint},
               lowerBound |-> lowerBound, expanded |-> <<>>,
               pushed |-> <<enterPoint>>,
               ub |-> DistanceReadsOutOfBounds(point, g[enterPoint].point)])

\* one entry of the call log: the arguments of a searchLayer call, its final
\* loop state st and the neighbors taken from its result
CallRecord(kind, enterPoint, level, ef, st, chosen) ==
    [kind |-> kind, enterPoint |-> enterPoint, level |-> level, ef |-> ef,
     top |-> st.top, visited |-> st.visited, expanded |-> st.expanded,
     pushed |-> st.pushed, frontier |-> st.candidates,
     lowerBound |-> st.lowerBound, ub |-> st.ub, chosen |-> chosen]

\* the greedy descent loops of insertNode (85-89) and search (177-181):
\* while (level > stop) { enterPoint = searchLayer(.., level, 1).top().second; --level; }
RECURSIVE Descend(_, _, _, _, _, _, _)
Descend(g, point, enterPoint, level, stop, u, ub) ==
    IF level > stop
    THEN LET r == searchLayer(g, point, enterPoint, level, 1, u)
             rest == Descend(g, point, MaxTop(g, r.top).id, level - 1, stop, u,
                             ub \/ r.ub)
         IN [rest EXCEPT !.calls =
                <<CallRecord("descend", enterPoint, level, 1, r, <<>>)>> \o @]
    ELSE [enterPoint |-> enterPoint, level |-> level, ub |-> ub, calls |-> <<>>]

\* ---------------------------------------------------------------- selectNeighbors
\* the while loop (146-153): pop topCandidates until maxNeighbors are taken
\* the loop without its size test: every candidate is taken
RECURSIVE PopNeighbors_Unbounded(_, _, _, _)
PopNeighbors_Unbounded(g, topCandidates, neighbors, bound) ==
    IF topCandidates = {} THEN neighbors
    ELSE LET t == MaxTop(g, topCandidates)
         IN PopNeighbors_Unbounded(g, topCandidates \ {t},
                                   Append(neighbors, t.id), bound)

\* the loop stopping one entry short of maxNeighbors
RECURSIVE PopNeighbors_OneShort(_, _, _, _)
PopNeighbors_OneShort(g, topCandidates, neighbors, bound) ==
    IF topCandidates = {} \/ Len(neighbors) + 1 >= bound THEN neighbors
    ELSE LET t == MaxTop(g, topCandidates)
         IN PopNeighbors_OneShort(g, topCandidates \ {t},
                                  IF t.id \in Range(neighbors) THEN neighbors
                                  ELSE Append(neighbors, t.id),
                                  bound)

RECURSIVE PopNeighbors(_, _, _, _)
PopNeighbors(g, topCandidates, neighbors, bound) ==
    IF topCandidates = {} \/ Len(neighbors) >= bound THEN neighbors
    ELSE LET t == MaxTop(g, topCandidates)
         IN PopNeighbors(g, topCandidates \ {t},
                         IF t.id \in Range(neighbors) THEN neighbors
                         ELSE Append(neighbors, t.id),
                         bound)

\* the for loop assigning the neighbor's list where the code appends to it
RECURSIVE LinkNeighbors_Overwrite(_, _, _, _, _)
LinkNeighbors_Overwrite(g, newNode, neighbors, level, i) ==
    IF i > Len(neighbors) THEN [g |-> g, ub |-> FALSE]
    ELSE
      LET nb == neighbors[i]
          g1 == [g EXCEPT ![newNode].nb[level + 1] = Append(@, nb)]
          inBounds == level < Len(g[nb].nb)
          g2 == IF inBounds
                THEN [g1 EXCEPT ![nb].nb[level + 1] = <<newNode>>]
                ELSE g1
          rest == LinkNeighbors_Overwrite(g2, newNode, neighbors, level, i + 1)
      IN [g |-> rest.g, ub |-> rest.ub \/ ~inBounds]

\* the for loop without line 156: the neighbor gets no edge back
RECURSIVE LinkNeighbors_OneWay(_, _, _, _, _)
LinkNeighbors_OneWay(g, newNode, neighbors, level, i) ==
    IF i > Len(neighbors) THEN [g |-> g, ub |-> FALSE]
    ELSE
      LET nb == neighbors[i]
          g1 == [g EXCEPT ![newNode].nb[level + 1] = Append(@, nb)]
          inBounds == level < Len(g[nb].nb)
          rest == LinkNeighbors_OneWay(g1, newNode, neighbors, level, i + 1)
      IN [g |-> rest.g, ub |-> rest.ub \/ ~inBounds]

\* the for loop (154-157): push_back on both sides; the push_back into a
\* neighbor that has no such layer is out of bounds and is lost
RECURSIVE LinkNeighbors(_, _, _, _, _)
LinkNeighbors(g, newNode, neighbors, level, i) ==
    IF i > Len(neighbors) THEN [g |-> g, ub |-> FALSE]
    ELSE
      LET nb == neighbors[i]
          g1 == [g EXCEPT ![newNode].nb[level + 1] = Append(@, nb)]
          inBounds == level < Len(g[nb].nb)
          g2 == IF inBounds
                THEN [g1 EXCEPT ![nb].nb[level + 1] = Append(@, newNode)]
                ELSE g1
          rest == LinkNeighbors(g2, newNode, neighbors, level, i + 1)
      IN [g |-> rest.g, ub |-> rest.ub \/ ~inBounds]

selectNeighbors(g, newNode, topCandidates, level) ==
    LET neighbors == PopNeighbors(g, topCandidates, <<>>, maxNeighbors)
        linked == LinkNeighbors(g, newNode, neighbors, level, 1)
    IN [g |-> linked.g, ub |-> linked.ub, neighbors |-> neighbors]

\* ---------------------------------------------------------------- insertNode
\* Node* enterPoint = graph.nodes[0]: every descent starts at the first node
EnterPoint == 1

\* for (int l = level; l >= 0; --l) { searchLayer(.., l, efConstruction); selectNeighbors(..) }
RECURSIVE LinkLayers(_, _, _, _, _, _)
LinkLayers(g, newNode, enterPoint, l, u, ub) ==
    IF l < 0 THEN [g |-> g, ub |-> ub, calls |-> <<>>]
    ELSE
      LET r == searchLayer(g, g[newNode].point, enterPoint, l, efConstruction, u)
          s == selectNeighbors(g, newNode, r.top, l)
          rest == LinkLayers(s.g, newNode, enterPoint, l - 1, u, ub \/ r.ub \/ s.ub)
      IN [rest EXCEPT !.calls =
             <<CallRecord("link", enterPoint, l, efConstruction, r, s.neighbors)>>
             \o @]

\* insertNode(newNode) on the store (ns, ml); the new node sits at position
\* Len(ns)+1 from the start, which is where push_back puts it at the end
insertNode(ns, ml, node, u) ==
    IF ns = <<>>
    THEN [nodes |-> <<node>>, maxLevel |-> ml, ub |-> FALSE, calls |-> <<>>]
    ELSE
      LET g == Append(ns, node)
          newNode == Len(g)
          dsc == Descend(g, node.point, EnterPoint, ml, TopLayer(node), u, FALSE)
          lnk == LinkLayers(g, newNode, dsc.enterPoint, dsc.level, u, dsc.ub)
      IN [nodes |-> lnk.g,
          maxLevel |-> IF TopLayer(node) > ml THEN TopLayer(node) ELSE ml,
          ub |-> lnk.ub,
          calls |-> dsc.calls \o lnk.calls]

\* ---------------------------------------------------------------- search
\* while (!topCandidates.empty()) { results.push_back(top().second->point); pop(); }
RECURSIVE Drain(_, _)
Drain(g, topCandidates) ==
    IF topCandidates = {} THEN <<>>
    ELSE LET t == MaxTop(g, topCandidates)
         IN <<g[t.id].point>> \o Drain(g, topCandidates \ {t})

searchNonEmpty(query, k, u) ==
    LET dsc == Descend(nodes, query, EnterPoint, maxLevel, 0, u, FALSE)
        r == searchLayer(nodes, query, dsc.enterPoint, 0, k, u)
    IN [results |-> Drain(nodes, r.top), ub |-> dsc.ub \/ r.ub,
        calls |-> Append(dsc.calls,
                         CallRecord("base", dsc.enterPoint, 0, k, r, <<>>))]

\* search without the emptiness test: graph.nodes[0] of an empty vector
search_NoEmptyTest(query, k, u) ==
    IF nodes = <<>> THEN [results |-> <<>>, ub |-> TRUE, calls |-> <<>>]
    ELSE searchNonEmpty(query, k, u)

search(query, k, u) ==
    IF nodes = <<>> THEN [results |-> <<>>, ub |-> FALSE, calls |-> <<>>]
    ELSE searchNonEmpty(query, k, u)

\* ---------------------------------------------------------------- actions
\* `new Node` returns an address distinct from those of the live nodes; only
\* the order of addresses is observable (pair comparison), so the new node
\* takes rank r and the others keep their relative order
Allocate(ns, r) ==
    [i \in 1..Len(ns) |->
        [ns[i] EXCEPT !.addr = IF @ >= r THEN @ + 1 ELSE @]]

\* whether a call can index a neighbors vector beyond its size: only layers
\* up to maxLevel are visited
LayerHazard == \E i \in 1..Len(nodes) : TopLayer(nodes[i]) < maxLevel

\* whether a call with point p can read a stored coordinate beyond its size
CoordHazard(p) == \E i \in 1..Len(nodes) : Len(nodes[i].point) < Len(p)

NoGarbage == [list |-> <<>>, coord |-> 0]

\* the garbage values a call with point p may meet; a call that makes no
\* out-of-bounds access with one of them (probe) makes none with any other
\* and reads none of them
Garbage(p, probe) ==
    IF ~probe THEN {NoGarbage}
    ELSE [list : IF LayerHazard THEN {<<>>} \cup {<<i>> : i \in 1..Len(nodes)}
                 ELSE {<<>>},
          coord : IF CoordHazard(p) THEN GarbageCoords ELSE {0}]

Call(op, p, level, k, ub) ==
    [op |-> op, point |-> p, level |-> level, k |-> k, n0 |-> Len(nodes), ub |-> ub]

NoCall == [op |-> "none", point |-> <<>>, level |-> 0, k |-> 0, n0 |-> 0, ub |-> FALSE]

Init ==
    /\ nodes = <<>>
    /\ maxLevel = 0
    /\ maxNeighbors \in MaxNeighborsChoices
    /\ efConstruction \in EfChoices
    /\ crashed = FALSE
    /\ last = NoCall
    /\ result = <<>>
    /\ calls = <<>>

\* As in main (298-306), the inserts come first and the query ends the run.
\* A call that made an out-of-bounds access ends it too, whether it crashed
\* or returned: what the program does after it is not defined.
Running == ~crashed /\ ~last.ub /\ last.op # "search"

\* HNSW::insert(point) with a sampled level.  The call returns with the new
\* store, or, when it made an out-of-bounds access, may crash instead.
InsertFrom(points) ==
    /\ \E p \in points, level \in Levels, r \in 1..(Len(nodes) + 1) :
         \E u \in Garbage(p, insertNode(Allocate(nodes, r), maxLevel,
                                          NewNode(p, level, r), NoGarbage).ub) :
           LET out == insertNode(Allocate(nodes, r), maxLevel, NewNode(p, level, r), u)
           IN \/ /\ nodes' = out.nodes
                 /\ maxLevel' = out.maxLevel
                 /\ last' = Call("insert", p, level, 0, out.ub)
                 /\ calls' = out.calls
                 /\ crashed' = FALSE
              \/ /\ out.ub
                 /\ UNCHANGED <<nodes, maxLevel>>
                 /\ last' = Call("insert", p, level, 0, TRUE)
                 /\ calls' = <<>>
                 /\ crashed' = TRUE
    /\ result' = <<>>
    /\ UNCHANGED <<maxNeighbors, efConstruction>>

\* HNSW::search(query, k): returns the results, or may crash when it made an
\* out-of-bounds access.
SearchFrom(queries, ks) ==
    /\ \E q \in queries, k \in ks :
         \E u \in Garbage(q, search(q, k, NoGarbage).ub) :
           LET out == search(q, k, u)
           IN \/ /\ result' = out.results
                 /\ last' = Call("search", q, 0, k, out.ub)
                 /\ calls' = out.calls
                 /\ crashed' = FALSE
              \/ /\ out.ub
                 /\ result' = <<>>
                 /\ last' = Call("search", q, 0, k, TRUE)
                 /\ calls' = <<>>
                 /\ crashed' = TRUE
    /\ UNCHANGED <<nodes, maxLevel, maxNeighbors, efConstruction>>

Insert == Running /\ Len(nodes) < MaxNodes /\ InsertFrom(InsertPoints)

Search == Running /\ SearchFrom(QueryPoints, 0..MaxK)

Next == Insert \/ Search

Spec == Init /\ [][Next]_vars

\* main itself: its points in its order, each with a sampled level, then its
\* query
MainPoints == <<PtA, PtB, PtC, PtD, PtE>>

InsertMain ==
    /\ Running
    /\ Len(nodes) < MaxNodes
    /\ Len(nodes) < Len(MainPoints)
    /\ InsertFrom({MainPoints[Len(nodes) + 1]})

SearchMain == Running /\ SearchFrom({PtMainQuery}, 0..MaxK)

NextMain == InsertMain \/ SearchMain

SpecMain == Init /\ [][NextMain]_vars

\* the same program fed points and queries of differing dimensions
InsertMixed == Running /\ Len(nodes) < MaxNodes /\ InsertFrom(MixedPoints)

SearchMixed == Running /\ SearchFrom(MixedQueries, 0..MaxK)

NextMixed == InsertMixed \/ SearchMixed

SpecMixed == Init /\ [][NextMixed]_vars

\* ---------------------------------------------------------------- properties
Stored == 1..Len(nodes)

\* the layer-l neighbor set of stored node i (none where it has no layer l)
NeighborSet(i, l) ==
    IF l < Len(nodes[i].nb) THEN Range(nodes[i].nb[l + 1]) ELSE {}

\* the last call was an insert (a search) and it returned
Inserted == ~crashed /\ last.op = "insert"
Returned == ~crashed /\ last.op = "search"

Distance(p1, p2) == euclideanDistance(p1, p2, NoGarbage)

StoredPoints == [i \in Stored |-> nodes[i].point]

\* C1: edges are symmetric: B is in A's layer-l neighbor set iff A is in B's
C1_Symmetry ==
    \A a \in Stored, b \in Stored, l \in Levels :
        (b \in NeighborSet(a, l)) <=> (a \in NeighborSet(b, l))

\* C2: search(q, k) returns exactly min(k, N) points
C2_ResultSize ==
    Returned => Len(result) = Min2(last.k, Len(nodes))

\* C3: the returned sequence is sorted by non-decreasing distance to the query
C3_Ascending ==
    Returned =>
        \A i \in 1..(Len(result) - 1) :
            Distance(last.point, result[i]) <= Distance(last.point, result[i + 1])

\* the exact k nearest stored points (verifyNearestNeighbors keeps the k
\* smallest distances)
BruteForce(query, k) ==
    {nodes[i].point : i \in
        {i \in Stored :
            Cardinality({j \in Stored :
                Distance(query, nodes[j].point) < Distance(query, nodes[i].point)}) < k}}

DistinctDistances(query) ==
    \A i \in Stored, j \in Stored :
        i # j => Distance(query, nodes[i].point) # Distance(query, nodes[j].point)

\* The first node has every layer a descent visits, so no call so far has
\* indexed a neighbors vector beyond its size (maxLevel never decreases).
WellLayered == nodes = <<>> \/ TopLayer(nodes[EnterPoint]) >= maxLevel

\* C4: with efConstruction >= N and a layer-0 width k >= N, search returns
\* the same set of points as the brute-force k nearest neighbours (stated
\* for the runs free of out-of-bounds accesses)
C4_Recall ==
    (/\ Returned
     /\ WellLayered
     /\ efConstruction >= Len(nodes)
     /\ last.k >= Len(nodes)
     /\ DistinctDistances(last.point))
    => Range(result) = BruteForce(last.point, last.k)

\* C5: an insert whose point has another dimension than the 4-dimensional
\* points stored leaves the graph store as it was
C5_MismatchRejected ==
    [][(/\ last'.op = "insert"
        /\ nodes # <<>>
        /\ \A i \in Stored : Len(nodes[i].point) = Len(PtA)
        /\ Len(last'.point) # Len(PtA))
       => (nodes' = nodes /\ maxLevel' = maxLevel)]_vars

\* C6: maxLevel equals the maximum top layer over the stored nodes
C6_MaxLevel ==
    nodes # <<>> =>
        /\ \A i \in Stored : TopLayer(nodes[i]) <= maxLevel
        /\ \E i \in Stored : TopLayer(nodes[i]) = maxLevel

\* C7: the node every descent starts from has top layer equal to maxLevel
C7_EntryPoint ==
    nodes # <<>> => TopLayer(nodes[EnterPoint]) = maxLevel

\* C8: right after the insert that creates it, the new node has at most
\* maxNeighbors neighbors at each of its layers
C8_NewNodeDegree ==
    Inserted =>
        \A l \in 1..Len(nodes[Len(nodes)].nb) :
            Len(nodes[Len(nodes)].nb[l]) <= maxNeighbors

\* an insert where the bound decided: more candidates than maxNeighbors
C8_Witness ==
    /\ Inserted
    /\ ~last.ub
    /\ efConstruction > maxNeighbors
    /\ Len(nodes) > maxNeighbors + 1
    /\ \A i \in Stored : NeighborSet(i, 0) # {}
    /\ Len(nodes[Len(nodes)].nb[1]) = maxNeighbors

\* C9: after A, B, C with maxNeighbors = 4, search((4,5,6,7), 2) returns
\* B, A (stated for the runs free of out-of-bounds accesses)
C9_Scenario ==
    (/\ Returned
     /\ WellLayered
     /\ maxNeighbors = MainMaxNeighbors
     /\ StoredPoints = <<PtA, PtB, PtC>>
     /\ last.point = PtQuery
     /\ last.k = 2)
    => result = <<PtB, PtA>>

\* C10: search on an index without insertions returns the empty sequence,
\* without error and without an access to a node
C10_EmptyIndex ==
    (last.op = "search" /\ last.n0 = 0) =>
        (result = <<>> /\ ~crashed /\ ~last.ub)

C10_Witness ==
    /\ last.op = "search"
    /\ last.n0 = 0
    /\ last.k > 0
    /\ result = <<>>

\* the nodes of a queue
Ids(queue) == {t.id : t \in queue}

\* the nodes that existed when the last call ran: an insert stores its node
\* after its searches
Existing == IF last.op = "insert" THEN 1..(Len(nodes) - 1) ELSE Stored

\* the nodes reachable from the set S through layer-l edges among the nodes
\* of `among`
RECURSIVE Reach(_, _, _)
Reach(S, l, among) ==
    LET next == S \cup {b \in among : \E a \in S : b \in NeighborSet(a, l)}
    IN IF next = S THEN S ELSE Reach(next, l, among)

\* C11: every node listed in a layer-l neighbor set has top layer >= l
C11_LayerMembership ==
    \A a \in Stored :
        \A l \in 0..TopLayer(nodes[a]) :
            \A b \in NeighborSet(a, l) : TopLayer(nodes[b]) >= l

\* C12: the neighbors selectNeighbors links at a layer are the
\* min(maxNeighbors, |candidates|) candidates closest to the new point: no
\* candidate left out is strictly closer than one that is taken (stated for
\* the runs free of out-of-bounds accesses)
C12_ClosestSelected ==
    (Inserted /\ ~last.ub) =>
        \A i \in 1..Len(calls) :
            calls[i].kind = "link" =>
                /\ Range(calls[i].chosen) \subseteq Ids(calls[i].top)
                /\ Len(calls[i].chosen)
                     = Min2(maxNeighbors, Cardinality(calls[i].top))
                /\ \A s \in calls[i].top, t \in calls[i].top :
                       (s.id \in Range(calls[i].chosen)
                        /\ t.id \notin Range(calls[i].chosen))
                       => ~(t.d < s.d)

\* C13: searchLayer breaks off only with a full result, and a result of
\* fewer than ef nodes holds every node reachable from the entry node
\* through the layer's edges (stated for the runs free of out-of-bounds
\* accesses)
C13_StoppingRule ==
    (~crashed /\ ~last.ub) =>
        \A i \in 1..Len(calls) :
            /\ calls[i].frontier # {} => Cardinality(calls[i].top) >= calls[i].ef
            /\ Cardinality(calls[i].top) < calls[i].ef =>
                   Reach({calls[i].enterPoint}, calls[i].level, Existing)
                       \subseteq Ids(calls[i].top)

\* C14: a searchLayer call with ef = 1 returns exactly one node; the node is
\* reachable from the entry node through the layer's edges, is no farther
\* from the query than the entry node, and has no neighbor at the layer
\* strictly closer to the query than itself
C14_GreedyDescent ==
    ~crashed =>
        \A i \in 1..Len(calls) :
            calls[i].ef = 1 =>
                /\ Cardinality(calls[i].top) = 1
                /\ \A t \in calls[i].top :
                       /\ t.id \in Reach({calls[i].enterPoint}, calls[i].level,
                                         Existing)
                       /\ t.d <= Distance(last.point,
                                          nodes[calls[i].enterPoint].point)
                       /\ \A b \in NeighborSet(t.id, calls[i].level) \cap Existing :
                              ~(Distance(last.point, nodes[b].point) < t.d)

\* C15: with at least 2 stored nodes (maxNeighbors >= 1, efConstruction >= 1)
\* every node's layer-0 neighbor set is non-empty
C15_BaseLayerNonEmpty ==
    (Len(nodes) >= 2 /\ maxNeighbors >= 1 /\ efConstruction >= 1) =>
        \A i \in Stored : NeighborSet(i, 0) # {}

\* an insert into a store of 2 or more nodes with the smallest parameters
C15_Witness ==
    /\ Inserted
    /\ Len(nodes) >= 3
    /\ maxNeighbors = 1
    /\ efConstruction = 1

\* C16: an insert that returns adds exactly one node and leaves every node
\* stored before it with its point, its top layer and all its edges; a
\* search changes nothing in the store
C16_AppendOnly ==
    [][/\ (last'.op = "insert" /\ ~crashed') =>
              /\ Len(nodes') = Len(nodes) + 1
              /\ \A i \in 1..Len(nodes) :
                     /\ nodes'[i].point = nodes[i].point
                     /\ Len(nodes'[i].nb) = Len(nodes[i].nb)
                     /\ \A l \in 1..Len(nodes[i].nb) :
                            Range(nodes[i].nb[l]) \subseteq Range(nodes'[i].nb[l])
       /\ last'.op = "search" => (nodes' = nodes /\ maxLevel' = maxLevel)]_vars

\* an insert that appended to a neighbor list that already held an edge
C16_Witness ==
    /\ Inserted
    /\ Len(nodes) >= 3
    /\ \E i \in 1..(Len(nodes) - 1) :
           /\ Len(nodes) \in NeighborSet(i, 0)
           /\ Cardinality(NeighborSet(i, 0)) >= 2

\* no element occurs twice in the sequence
NoDuplicates(s) == \A i \in 1..Len(s) : \A j \in 1..Len(s) : s[i] = s[j] => i = j

\* C17: every searchLayer call ends having expanded each node at most once
\* and pushed each node into the frontier at most once, and an insert or a
\* search makes its searchLayer calls at distinct layers of 0..maxLevel, so
\* at most maxLevel + 1 of them
C17_Termination ==
    [][/\ Len(calls') <= maxLevel + 1
       /\ \A i \in 1..Len(calls') :
              /\ NoDuplicates(calls'[i].expanded)
              /\ NoDuplicates(calls'[i].pushed)
              /\ calls'[i].level \in 0..maxLevel
              /\ \A j \in 1..Len(calls') : i < j => calls'[i].level > calls'[j].level]_vars

\* an operation of two searchLayer calls, one of which expanded a node whose
\* neighbor had been visited before
C17_Witness ==
    /\ ~crashed
    /\ ~last.ub
    /\ Len(calls) = maxLevel + 1
    /\ Len(calls) >= 2
    /\ \E i \in 1..Len(calls) : Len(calls[i].expanded) >= 2

\* C18: every layer access is in bounds: no call crashed on one or made one,
\* and searchLayer is never started at a layer above the top layer of its
\* entry node (the points of this specification all have the same size, so
\* an out-of-bounds access is an access to a layer)
C18_InBoundsLayers ==
    /\ ~crashed
    /\ ~last.ub
    /\ \A i \in 1..Len(calls) :
           calls[i].level <= TopLayer(nodes[calls[i].enterPoint])

\* C19: no node lists itself at any layer, no node occurs twice in a neighbor
\* list, and every edge is recorded once on each side
C19_SimpleGraph ==
    \A a \in Stored :
        \A l \in 1..Len(nodes[a].nb) :
            /\ a \notin Range(nodes[a].nb[l])
            /\ NoDuplicates(nodes[a].nb[l])
            /\ \A b \in Range(nodes[a].nb[l]) : a \in NeighborSet(b, l - 1)

\* C20: with maxNeighbors >= 1 and efConstruction >= 1 every stored node is
\* reachable from the first-inserted node through layer-0 edges
C20_BaseLayerConnected ==
    (nodes # <<>> /\ maxNeighbors >= 1 /\ efConstruction >= 1) =>
        Reach({EnterPoint}, 0, Stored) = Stored

\* a store where a node is reachable from the first node only through
\* another node
C20_Witness ==
    /\ Inserted
    /\ Len(nodes) >= 3
    /\ \E i \in Stored : i # EnterPoint /\ i \notin NeighborSet(EnterPoint, 0)

====
